---------------------------- MODULE Spec2Model ----------------------------
(* The blog application of src/Blog-Website/main.py as a state machine:   *)
(* three tables (users, blog_posts, comments), one signed session cookie  *)
(* per client, and one action per route handler.  SpecConcurrent splits   *)
(* register at db.session.commit() so that the registrations of two       *)
(* clients interleave.                                                    *)
EXTENDS Integers, Sequences, FiniteSets, TLC

\* ------------------------------------------------------------- bounds

\* Largest primary key the model lets each table hand out.
MaxUserId == 2
MaxPostId == 2
MaxCommentId == 1
\* Most primary keys the three tables hand out between them.
MaxKeys == 4

\* ---------------------------------------------------- inputs (small sets)

Clients == {"c1", "c2"}
Methods == {"GET", "POST"}
\* DATABASE_URL is read from the environment: the two stores the ORM is
\* commonly pointed at differ in how they hand out primary keys and in
\* whether they enforce foreign keys.
Dialects == {"sqlite", "postgresql"}

WellFormedEmails == {"a@x.com", "b@x.com"}
Salts == {"s1"}
RegisterInputs ==
    { [email |-> "a@x.com", password |-> "abcdefgh", name |-> "A"],
      [email |-> "b@x.com", password |-> "abcdefgh", name |-> "B"],
      [email |-> "b@x.com", password |-> "short", name |-> "B"] }
LoginInputs ==
    { [email |-> "a@x.com", password |-> "abcdefgh"],
      [email |-> "a@x.com", password |-> "hgfedcba"],
      [email |-> "b@x.com", password |-> "abcdefgh"],
      [email |-> "not-an-email", password |-> "abcdefgh"] }
CommentInputs == { [comment |-> "nice"], [comment |-> ""] }
PostInputs ==
    { [title |-> "T1", subtitle |-> "S1", img_url |-> "http://x/1", body |-> "B1"],
      [title |-> "T2", subtitle |-> "S2", img_url |-> "http://x/2", body |-> "B2"],
      [title |-> "T2", subtitle |-> "S1", img_url |-> "nourl", body |-> "B1"] }
WellFormedUrls == {"http://x/1", "http://x/2"}
ContactInputs ==
    { [name |-> "A", email |-> "a@x.com", phone |-> "1", message |-> "hi"],
      [name |-> "A", email |-> "a@x.com", phone |-> "1", message |-> ""] }
\* How the hand-off to the SMTP server may end.
MailResults == {"sent", "SMTPAuthenticationError", "SMTPException"}
\* What date.today() may return.
Days == { [year |-> 2026, month |-> 11, day |-> 2],
          [year |-> 2026, month |-> 11, day |-> 3] }
\* The post ids a URL may name: every key the model's store can hand out,
\* whether or not a row has it now.
PostIds == 1 .. MaxPostId

\* -------------------------------------------------------------- state

VARIABLES
    dialect,      \* the store behind DATABASE_URL
    users,        \* rows of table users
    blog_posts,   \* rows of table blog_posts
    comments,     \* rows of table comments
    seq,          \* postgresql: last value of each table's id sequence
    session,      \* client -> user id kept in its session cookie, or NULL
    pending,      \* client -> the User added to its db session and not yet
                  \* committed: a set of at most one
    last,         \* the last response sent: [route, client, outcome]
    deleted,      \* history: the ids of deleted posts that no later post
                  \* has been given
    raced         \* history: the latest register began beside a pending one
                  \* for the same email

vars == << dialect, users, blog_posts, comments, seq, session, pending,
           last, deleted, raced >>

NULL == 0

\* ------------------------------------------------------ the store

Max(S) == CHOOSE m \in S : \A n \in S : n <= m

Ids(rows) == { r.id : r \in rows }

\* Integer primary key, filled in by the store on INSERT.
NextId(rows, table) ==
    IF dialect = "sqlite"
    THEN Max(Ids(rows) \cup {0}) + 1
    ELSE seq[table] + 1

\* An INSERT draws from the table's sequence whether or not it commits.
SeqAfterInsert(table) ==
    IF dialect = "sqlite" THEN seq ELSE [seq EXCEPT ![table] = @ + 1]

\* The keys the three tables have handed out and not taken back.
KeysDrawn ==
    (NextId(users, "users") - 1) + (NextId(blog_posts, "blog_posts") - 1)
        + (NextId(comments, "comments") - 1)

\* The model's bounds leave room for `n` more INSERTs into this table.
RoomFor(n, rows, table, maxId) ==
    /\ NextId(rows, table) + (n - 1) <= maxId
    /\ KeysDrawn + n <= MaxKeys

ForeignKeysEnforced == dialect = "postgresql"

\* Mutant of EmailTaken: the email column without its unique constraint.
EmailTaken_NoConstraint(email) == FALSE

\* unique=True on users.email
EmailTaken(email) == \E u \in users : u.email = email

\* unique=True on blog_posts.title; `except` is the row being updated
TitleTaken(title, except) ==
    \E p \in blog_posts : p.title = title /\ p.id # except

\* db.select(BlogPost).filter_by(id=post_id): the matching rows
SelectPost(post_id) == { p \in blog_posts : p.id = post_id }

\* ------------------------------------------------ password hashing

Digest(salt, password) == << salt, password >>

generate_password_hash(password, salt) ==
    [method |-> "scrypt", salt |-> salt, digest |-> Digest(salt, password)]

\* Mutant of check_password_hash: any password verifies.
check_password_hash_Always(pwhash, password) == pwhash.method = "scrypt"

check_password_hash(pwhash, password) ==
    pwhash.digest = Digest(pwhash.salt, password)

\* ------------------------------------------------------ validation

DataRequired(data) == data # ""
Email(data) == data \in WellFormedEmails
URL(data) == data \in WellFormedUrls
MinPasswordLength == 8
Length(data) == Len(data) >= MinPasswordLength

RegisterForm(form) ==
    /\ DataRequired(form.email) /\ Email(form.email)
    /\ DataRequired(form.password) /\ Length(form.password)
    /\ DataRequired(form.name)

LoginForm(form) ==
    /\ DataRequired(form.email) /\ Email(form.email)
    /\ DataRequired(form.password) /\ Length(form.password)

CommentForm(form) == DataRequired(form.comment)

CreatePostForm(form) ==
    /\ DataRequired(form.title)
    /\ DataRequired(form.subtitle)
    /\ DataRequired(form.img_url) /\ URL(form.img_url)
    /\ DataRequired(form.body)

CreateContactForm(form) ==
    /\ DataRequired(form.name)
    /\ DataRequired(form.email) /\ Email(form.email)
    /\ DataRequired(form.phone)
    /\ DataRequired(form.message)

\* FlaskForm.validate_on_submit(): a submission, and every validator passes
validate_on_submit(method, valid) == method = "POST" /\ valid

\* ---------------------------------------------------- session / identity

\* user_loader: the row with this id, or no user
load_user(user_id) == { u \in users : u.id = user_id }

\* current_user of client c: the loaded row, else the anonymous user
is_authenticated(c) == session[c] # NULL /\ load_user(session[c]) # {}

\* current_user.id; the anonymous user has no id
current_user_id(c) == IF is_authenticated(c) THEN session[c] ELSE NULL

Respond(c, route, outcome) ==
    last' = [route |-> route, client |-> c, outcome |-> outcome]

\* No request of client c is being handled.
Idle(c) == pending[c] = {}

\* The User object client c's request has added to its db session.
new_user(c) == CHOOSE u \in pending[c] : TRUE

MonthNames ==
    << "January", "February", "March", "April", "May", "June", "July",
       "August", "September", "October", "November", "December" >>

\* date.strftime("%B %d, %Y"): month name, day of the month, year
strftime(date) ==
    [B |-> MonthNames[date.month], d |-> date.day, Y |-> date.year]

\* --------------------------------------------------------- Init

Init ==
    /\ dialect \in Dialects
    /\ users = {}
    /\ blog_posts = {}
    /\ comments = {}
    /\ seq = [users |-> 0, blog_posts |-> 0, comments |-> 0]
    /\ session = [c \in Clients |-> NULL]
    /\ pending = [c \in Clients |-> {}]
    /\ last = [route |-> "none", client |-> "none", outcome |-> "none"]
    /\ deleted = {}
    /\ raced = FALSE

\* ------------------------------------------------- register / login / logout

\* Mutant of commit_new_user: on the IntegrityError the handler logs the
\* requester in as the user who holds the email.
commit_new_user_LoginAnyway(c, user) ==
    /\ seq' = SeqAfterInsert("users")
    /\ IF \E u \in users : u.email = user.email
       THEN /\ Respond(c, "register", "flash:email-taken;redirect:register")
            /\ session' = [session EXCEPT ![c] =
                   (CHOOSE u \in users : u.email = user.email).id]
            /\ UNCHANGED users
       ELSE /\ users' = users \cup
                   {[id |-> NextId(users, "users"),
                     email |-> user.email,
                     password |-> user.password,
                     name |-> user.name]}
            /\ session' = [session EXCEPT ![c] = NextId(users, "users")]
            /\ Respond(c, "register", "redirect:get_all_posts")

\* register() from db.session.commit() on, for the User object the handler
\* built: the commit inserts the row or fails on the unique email as a whole.
commit_new_user(c, user) ==
    /\ seq' = SeqAfterInsert("users")
    /\ IF EmailTaken(user.email)
       THEN \* IntegrityError: nothing of the transaction persists
            /\ Respond(c, "register", "flash:email-taken;redirect:register")
            /\ UNCHANGED << users, session >>
       ELSE /\ users' = users \cup
                   {[id |-> NextId(users, "users"),
                     email |-> user.email,
                     password |-> user.password,
                     name |-> user.name]}
            /\ session' = [session EXCEPT ![c] = NextId(users, "users")]
            /\ Respond(c, "register", "redirect:get_all_posts")

\* User(email=..., password=generate_password_hash(...), name=...)
User(form, salt) ==
    [email |-> form.email,
     password |-> generate_password_hash(form.password, salt),
     name |-> form.name]

\* The whole of register().
register(c, method, form, salt) ==
    /\ Idle(c)
    /\ IF validate_on_submit(method, RegisterForm(form))
       THEN /\ RoomFor(1, users, "users", MaxUserId)
            /\ commit_new_user(c, User(form, salt))
       ELSE /\ Respond(c, "register", "render:register.html")
            /\ UNCHANGED << users, session, seq >>
    /\ UNCHANGED << dialect, blog_posts, comments, pending, deleted,
                    raced >>

\* register() of a valid submission up to db.session.add(new_user) ...
register_add(c, form, salt) ==
    /\ Idle(c)
    /\ validate_on_submit("POST", RegisterForm(form))
    /\ RoomFor(1 + Cardinality({d \in Clients : pending[d] # {}}),
               users, "users", MaxUserId)
    /\ pending' = [pending EXCEPT ![c] = {User(form, salt)}]
    /\ raced' = \E d \in Clients \ {c} :
                    pending[d] # {} /\ new_user(d).email = form.email
    /\ UNCHANGED << dialect, users, blog_posts, comments, seq, session,
                    last, deleted >>

\* ... and from db.session.commit() on.
register_commit(c) ==
    /\ pending[c] # {}
    /\ commit_new_user(c, new_user(c))
    /\ pending' = [pending EXCEPT ![c] = {}]
    /\ UNCHANGED << dialect, blog_posts, comments, deleted, raced >>

login(c, method, form) ==
    /\ Idle(c)
    /\ IF validate_on_submit(method, LoginForm(form))
       THEN LET found == { u \in users : u.email = form.email } IN
            IF found = {}
            THEN /\ Respond(c, "login", "flash:wrong-email;redirect:login")
                 /\ UNCHANGED session
            ELSE LET user == CHOOSE u \in found : TRUE IN
                 IF check_password_hash(user.password, form.password)
                 THEN /\ session' = [session EXCEPT ![c] = user.id]
                      /\ Respond(c, "login", "redirect:get_all_posts")
                 ELSE /\ Respond(c, "login", "flash:wrong-password;redirect:login")
                      /\ UNCHANGED session
       ELSE /\ Respond(c, "login", "render:login.html")
            /\ UNCHANGED session
    /\ UNCHANGED << dialect, users, blog_posts, comments, seq, pending,
                    deleted, raced >>

logout(c) ==
    /\ Idle(c)
    /\ session' = [session EXCEPT ![c] = NULL]
    /\ Respond(c, "logout", "redirect:get_all_posts")
    /\ UNCHANGED << dialect, users, blog_posts, comments, seq, pending,
                    deleted, raced >>

\* ------------------------------------------------------- admin_only

\* Mutant of admin_only: any logged-in user passes.
admin_only_AnyUser(c, route, function) ==
    IF is_authenticated(c)
    THEN function
    ELSE /\ Respond(c, route, "abort:403")
         /\ UNCHANGED << dialect, users, blog_posts, comments, seq, session,
                         pending, deleted, raced >>

\* The decorator: the wrapped function runs only when current_user.id == 1;
\* another id, or the AttributeError of the anonymous user, aborts with 403.
admin_only(c, route, function) ==
    IF is_authenticated(c) /\ current_user_id(c) = 1
    THEN function
    ELSE /\ Respond(c, route, "abort:403")
         /\ UNCHANGED << dialect, users, blog_posts, comments, seq, session,
                         pending, deleted, raced >>

\* ------------------------------------------------------- reading posts

get_all_posts(c) ==
    /\ Idle(c)
    /\ Respond(c, "get_all_posts", "render:index.html")
    /\ UNCHANGED << dialect, users, blog_posts, comments, seq, session,
                    pending, deleted, raced >>

\* requested_post = ...scalar_one(); render_template("post.html", ...):
\* scalar_one() raises NoResultFound when no row matches.
render_post(c, post_id) ==
    IF SelectPost(post_id) = {}
    THEN Respond(c, "show_post", "raise:NoResultFound")
    ELSE Respond(c, "show_post", "render:post.html")

\* db.session.add(Comment(...)); db.session.commit(), then the rest of
\* show_post: the comment is written before the post is looked up.
add_comment(c, post_id, form) ==
    /\ RoomFor(1, comments, "comments", MaxCommentId)
    /\ seq' = SeqAfterInsert("comments")
    /\ IF ForeignKeysEnforced /\ SelectPost(post_id) = {}
       THEN /\ Respond(c, "show_post", "raise:IntegrityError")
            /\ UNCHANGED comments
       ELSE /\ comments' = comments \cup
                   {[id |-> NextId(comments, "comments"),
                     author_id |-> current_user_id(c),
                     post_id |-> post_id,
                     text |-> form.comment]}
            /\ render_post(c, post_id)

\* Mutant of show_post: the comment is written without asking whether the
\* requester is logged in.
show_post_NoLoginCheck(c, method, post_id, form) ==
    /\ Idle(c)
    /\ IF validate_on_submit(method, CommentForm(form))
       THEN add_comment(c, post_id, form)
       ELSE /\ render_post(c, post_id)
            /\ UNCHANGED << comments, seq >>
    /\ UNCHANGED << dialect, users, blog_posts, session, pending, deleted,
                    raced >>

show_post(c, method, post_id, form) ==
    /\ Idle(c)
    /\ IF validate_on_submit(method, CommentForm(form))
       THEN IF is_authenticated(c)
            THEN add_comment(c, post_id, form)
            ELSE /\ Respond(c, "show_post", "flash:please-login;redirect:login")
                 /\ UNCHANGED << comments, seq >>
       ELSE /\ render_post(c, post_id)
            /\ UNCHANGED << comments, seq >>
    /\ UNCHANGED << dialect, users, blog_posts, session, pending, deleted,
                    raced >>

\* ------------------------------------------------------- writing posts

\* The body of add_new_post, behind admin_only.
add_new_post_body(c, method, form) ==
    /\ IF validate_on_submit(method, CreatePostForm(form))
       THEN /\ RoomFor(1, blog_posts, "blog_posts", MaxPostId)
            /\ seq' = SeqAfterInsert("blog_posts")
            /\ IF TitleTaken(form.title, NULL)
               THEN /\ Respond(c, "add_new_post", "raise:IntegrityError")
                    /\ UNCHANGED << blog_posts, deleted >>
               ELSE /\ \E day \in Days :
                         blog_posts' = blog_posts \cup
                           {[id |-> NextId(blog_posts, "blog_posts"),
                             author_id |-> current_user_id(c),
                             title |-> form.title,
                             subtitle |-> form.subtitle,
                             date |-> strftime(day),
                             body |-> form.body,
                             img_url |-> form.img_url]}
                    /\ deleted' = deleted \ {NextId(blog_posts, "blog_posts")}
                    /\ Respond(c, "add_new_post", "redirect:get_all_posts")
       ELSE /\ Respond(c, "add_new_post", "render:make-post.html")
            /\ UNCHANGED << blog_posts, seq, deleted >>
    /\ UNCHANGED << dialect, users, comments, session, pending, raced >>

add_new_post(c, method, form) ==
    /\ Idle(c)
    /\ admin_only(c, "add_new_post", add_new_post_body(c, method, form))

\* Mutant of edit_post_body: the edit stamps the post with the day's date,
\* as add_new_post does.
edit_post_body_Restamp(c, method, post_id, form) ==
    /\ IF SelectPost(post_id) = {}
       THEN /\ Respond(c, "edit_post", "raise:NoResultFound")
            /\ UNCHANGED blog_posts
       ELSE LET post == CHOOSE p \in SelectPost(post_id) : TRUE IN
            IF validate_on_submit(method, CreatePostForm(form))
            THEN IF TitleTaken(form.title, post.id)
                 THEN /\ Respond(c, "edit_post", "raise:IntegrityError")
                      /\ UNCHANGED blog_posts
                 ELSE /\ \E day \in Days :
                           blog_posts' = (blog_posts \ {post}) \cup
                             {[post EXCEPT !.title = form.title,
                                           !.subtitle = form.subtitle,
                                           !.img_url = form.img_url,
                                           !.body = form.body,
                                           !.date = strftime(day)]}
                      /\ Respond(c, "edit_post", "redirect:show_post")
            ELSE /\ Respond(c, "edit_post", "render:make-post.html")
                 /\ UNCHANGED blog_posts
    /\ UNCHANGED << dialect, users, comments, seq, session, pending,
                    deleted, raced >>

\* The body of edit_post, behind admin_only.
edit_post_body(c, method, post_id, form) ==
    /\ IF SelectPost(post_id) = {}
       THEN /\ Respond(c, "edit_post", "raise:NoResultFound")
            /\ UNCHANGED blog_posts
       ELSE LET post == CHOOSE p \in SelectPost(post_id) : TRUE IN
            IF validate_on_submit(method, CreatePostForm(form))
            THEN IF TitleTaken(form.title, post.id)
                 THEN /\ Respond(c, "edit_post", "raise:IntegrityError")
                      /\ UNCHANGED blog_posts
                 ELSE /\ blog_posts' = (blog_posts \ {post}) \cup
                             {[post EXCEPT !.title = form.title,
                                           !.subtitle = form.subtitle,
                                           !.img_url = form.img_url,
                                           !.body = form.body]}
                      /\ Respond(c, "edit_post", "redirect:show_post")
            ELSE /\ Respond(c, "edit_post", "render:make-post.html")
                 /\ UNCHANGED blog_posts
    /\ UNCHANGED << dialect, users, comments, seq, session, pending,
                    deleted, raced >>

edit_post(c, method, post_id, form) ==
    /\ Idle(c)
    /\ admin_only(c, "edit_post", edit_post_body(c, method, post_id, form))

\* Mutant of DeletePost: the post's comments are detached and the row stays.
DeletePost_KeepsRow(post) ==
    /\ blog_posts' = blog_posts
    /\ comments' = { IF cm.post_id = post.id
                     THEN [cm EXCEPT !.post_id = NULL]
                     ELSE cm : cm \in comments }

\* db.session.delete(post): the relationship BlogPost.comments has no delete
\* cascade, so the flush first sets post_id of the post's comments to NULL.
DeletePost(post) ==
    /\ blog_posts' = blog_posts \ {post}
    /\ comments' = { IF cm.post_id = post.id
                     THEN [cm EXCEPT !.post_id = NULL]
                     ELSE cm : cm \in comments }

\* The body of delete_post, behind admin_only.
delete_post_body(c, post_id) ==
    /\ IF SelectPost(post_id) = {}
       THEN /\ Respond(c, "delete_post", "raise:NoResultFound")
            /\ UNCHANGED << blog_posts, comments, deleted >>
       ELSE /\ DeletePost(CHOOSE p \in SelectPost(post_id) : TRUE)
            /\ deleted' = deleted \cup {post_id}
            /\ Respond(c, "delete_post", "redirect:get_all_posts")
    /\ UNCHANGED << dialect, users, seq, session, pending, raced >>

delete_post(c, post_id) ==
    /\ Idle(c)
    /\ admin_only(c, "delete_post", delete_post_body(c, post_id))

\* ------------------------------------------------------------ contact

\* contact(): only the two render_template calls return a response; a
\* submission that is mailed without an exception falls off the end of the
\* function, which returns None.
contact(c, method, form) ==
    /\ Idle(c)
    /\ IF validate_on_submit(method, CreateContactForm(form))
       THEN \E mail \in MailResults :
              CASE mail = "SMTPAuthenticationError" ->
                     Respond(c, "contact",
                             "render:contact.html:Successfully Send Your Message")
                [] mail = "SMTPException" ->
                     Respond(c, "contact", "raise:SMTPException")
                [] OTHER ->
                     Respond(c, "contact", "return:None")
       ELSE Respond(c, "contact", "render:contact.html:Contact Me")
    /\ UNCHANGED << dialect, users, blog_posts, comments, seq, session,
                    pending, deleted, raced >>

\* A GET carries no form data; a POST carries one of the inputs.
Submitted(method, inputs, blank) == IF method = "GET" THEN {blank} ELSE inputs

BlankRegister == [email |-> "", password |-> "", name |-> ""]
BlankLogin == [email |-> "", password |-> ""]
BlankComment == [comment |-> ""]
BlankPost == [title |-> "", subtitle |-> "", img_url |-> "", body |-> ""]
BlankContact == [name |-> "", email |-> "", phone |-> "", message |-> ""]

\* Every request client c can send.
Request(c) ==
    \/ \E m \in Methods, s \in Salts :
         \E f \in Submitted(m, RegisterInputs, BlankRegister) : register(c, m, f, s)
    \/ \E m \in Methods :
         \E f \in Submitted(m, LoginInputs, BlankLogin) : login(c, m, f)
    \/ logout(c)
    \/ get_all_posts(c)
    \/ \E m \in Methods, p \in PostIds :
         \E f \in Submitted(m, CommentInputs, BlankComment) : show_post(c, m, p, f)
    \/ \E m \in Methods :
         \E f \in Submitted(m, ContactInputs, BlankContact) : contact(c, m, f)
    \/ \E m \in Methods :
         \E f \in Submitted(m, PostInputs, BlankPost) : add_new_post(c, m, f)
    \/ \E m \in Methods, p \in PostIds :
         \E f \in Submitted(m, PostInputs, BlankPost) : edit_post(c, m, p, f)
    \/ \E p \in PostIds : delete_post(c, p)

\* Requests handled one at a time: what one browser can drive the
\* application through (it can log in as any registered user).
Next == Request("c1")

Spec == Init /\ [][Next]_vars

\* Two browsers whose register, login and logout requests interleave at
\* db.session.commit().
NextConcurrent ==
    \E c \in Clients :
       \/ \E f \in RegisterInputs, s \in Salts : register_add(c, f, s)
       \/ register_commit(c)
       \/ \E m \in Methods :
            \E f \in Submitted(m, LoginInputs, BlankLogin) : login(c, m, f)
       \/ logout(c)

SpecConcurrent == Init /\ [][NextConcurrent]_vars

\* ================================================================ claims

Forbidden(c, route) == [route |-> route, client |-> c, outcome |-> "abort:403"]

PostForms == PostInputs \cup {BlankPost}
CommentForms == CommentInputs \cup {BlankComment}

\* Every handler's step records its route and its client in `last`, so a
\* formula about a handler asks first whether the step's response came from
\* that route, and takes the client from it: the handler's own formula is
\* then evaluated only on the steps that can be its own.
StepOf(route) == last'.route = route

\* C1: a request to /new-post, /edit-post/{id} or /delete/{id} whose session
\* is anonymous or belongs to a user other than user 1 is answered with 403,
\* the same response in both cases; the wrapped handler does not run, so no
\* row of any table and no session changes.
C1_AdminOnly ==
    [][\A route \in {"add_new_post", "edit_post", "delete_post"} :
          (StepOf(route) /\ session[last'.client] # 1) =>
             /\ last' = Forbidden(last'.client, route)
             /\ UNCHANGED << users, blog_posts, comments, seq, session >>
      ]_vars

\* A logged-in user other than user 1 asked to delete while a post existed,
\* and got 403.
C1_Witness ==
    /\ last = Forbidden("c1", "delete_post")
    /\ session["c1"] = 2
    /\ blog_posts # {}

\* C2: a valid register submission whose email is that of an existing user
\* leaves the users table and the session as they were and answers with the
\* email-taken message and a redirect to the register form.
C2_DuplicateEmailRejected ==
    [][StepOf("register") =>
       \A f \in RegisterInputs, s \in Salts :
          ( /\ RegisterForm(f)
            /\ \E u \in users : u.email = f.email
            /\ register(last'.client, "POST", f, s) )
          => /\ users' = users
             /\ session' = session
             /\ last'.outcome = "flash:email-taken;redirect:register"
      ]_vars

\* A registration was turned down for its email while logged in as someone.
C2_Witness ==
    /\ last.route = "register"
    /\ last.outcome = "flash:email-taken;redirect:register"
    /\ \E u \in users : u.id = session["c1"]

\* The login submission names an existing user and a password that is not
\* the one that user's hash was made from.
WrongPasswordFor(f) ==
    \E u \in users :
       /\ u.email = f.email
       /\ u.password.digest # Digest(u.password.salt, f.password)

WrongPasswordResponse(c) ==
    [route |-> "login", client |-> c,
     outcome |-> "flash:wrong-password;redirect:login"]

\* C3 as stated: a login with an existing email and a wrong password ends
\* with the session anonymous, and the wrong-password re-prompt.
C3_Original ==
    [][StepOf("login") =>
       \A f \in LoginInputs :
          ( /\ LoginForm(f) /\ WrongPasswordFor(f)
            /\ login(last'.client, "POST", f) )
          => /\ session'[last'.client] = NULL
             /\ last' = WrongPasswordResponse(last'.client)
      ]_vars

\* C3 as amended: a login with an existing email and a wrong password leaves
\* the session as it was (anonymous stays anonymous, and nobody is newly
\* logged in), and answers with the wrong-password re-prompt.
C3_FailedLoginKeepsSession ==
    [][StepOf("login") =>
       \A f \in LoginInputs :
          ( /\ LoginForm(f) /\ WrongPasswordFor(f)
            /\ login(last'.client, "POST", f) )
          => /\ session' = session
             /\ last' = WrongPasswordResponse(last'.client)
      ]_vars

\* An anonymous session tried a wrong password and is still anonymous.
C3_Witness ==
    /\ last = WrongPasswordResponse("c1")
    /\ session["c1"] = NULL

\* C4: a valid comment submission from an anonymous session, for any post
\* id, leaves the comments table as it was and redirects to the login page.
C4_AnonymousCommentRejected ==
    [][(StepOf("show_post") /\ session[last'.client] = NULL) =>
       \A p \in PostIds, f \in CommentInputs :
          (CommentForm(f) /\ show_post(last'.client, "POST", p, f))
          => /\ comments' = comments
             /\ last'.outcome = "flash:please-login;redirect:login"
      ]_vars

\* An anonymous session was sent to the login page while a post existed.
C4_Witness ==
    /\ last.route = "show_post"
    /\ last.outcome = "flash:please-login;redirect:login"
    /\ session["c1"] = NULL
    /\ blog_posts # {}

\* Another post than `post_id` has this title.
DuplicateTitle(title, post_id) ==
    \E q \in blog_posts : q.title = title /\ q.id # post_id

\* C5: when user 1 submits a valid create-post or edit-post whose title is
\* that of a different post, the posts are left as they were and the handler
\* answers with a re-prompt, not with an unhandled error.
C5_DuplicateTitleReprompted ==
    [][\A f \in PostInputs :
          (session[last'.client] = 1 /\ CreatePostForm(f)) =>
             /\ ( /\ StepOf("add_new_post")
                  /\ DuplicateTitle(f.title, NULL)
                  /\ add_new_post(last'.client, "POST", f) )
                => /\ blog_posts' = blog_posts
                   /\ last'.outcome # "raise:IntegrityError"
             /\ \A p \in PostIds :
                  ( /\ StepOf("edit_post")
                    /\ SelectPost(p) # {} /\ DuplicateTitle(f.title, p)
                    /\ edit_post(last'.client, "POST", p, f) )
                  => /\ blog_posts' = blog_posts
                     /\ last'.outcome # "raise:IntegrityError"
      ]_vars

\* The post with id `post_id` keeps its id, date and author_id, carries the
\* submitted title, subtitle, img_url and body, and every other row of every
\* table is as it was.
EditApplied(post_id, f) ==
    /\ \E old \in blog_posts, new \in blog_posts' :
          /\ old.id = post_id /\ new.id = post_id
          /\ new.date = old.date
          /\ new.author_id = old.author_id
          /\ new.title = f.title
          /\ new.subtitle = f.subtitle
          /\ new.img_url = f.img_url
          /\ new.body = f.body
          /\ blog_posts' \ {new} = blog_posts \ {old}
    /\ users' = users
    /\ comments' = comments

\* C6 as stated: every valid edit submission by user 1 for an existing post
\* is applied.
C6_Original ==
    [][(StepOf("edit_post") /\ session[last'.client] = 1) =>
       \A p \in PostIds, f \in PostInputs :
          ( /\ CreatePostForm(f) /\ SelectPost(p) # {}
            /\ edit_post(last'.client, "POST", p, f) )
          => EditApplied(p, f)
      ]_vars

\* C6 as amended: a valid edit submission by user 1 for an existing post is
\* applied when its title is not that of a different post, and changes no
\* row of any table when it is.
C6_EditPreservesIdentity ==
    [][(StepOf("edit_post") /\ session[last'.client] = 1) =>
       \A p \in PostIds, f \in PostInputs :
          ( /\ CreatePostForm(f) /\ SelectPost(p) # {}
            /\ edit_post(last'.client, "POST", p, f) )
          => IF DuplicateTitle(f.title, p)
             THEN UNCHANGED << users, blog_posts, comments >>
             ELSE EditApplied(p, f)
      ]_vars

\* An edit went through while another post and a comment existed.
C6_Witness ==
    /\ last.route = "edit_post"
    /\ last.outcome = "redirect:show_post"
    /\ Cardinality(blog_posts) = 2
    /\ comments # {}

NotFound(c, route) ==
    [route |-> route, client |-> c, outcome |-> "raise:NoResultFound"]

C8_CommentsReferenceRows ==
    \A cm \in comments :
       /\ \E p \in blog_posts : p.id = cm.post_id
       /\ \E u \in users : u.id = cm.author_id

UniqueEmails == \A u, v \in users : u.email = v.email => u = v

\* C9: with registrations interleaving at the commit, no two users share an
\* email; a commit for an email already in the table inserts nothing, logs
\* nobody in and answers email-taken, and any other commit inserts exactly
\* the one user and logs its requester in as that user.
C9_ConcurrentRegisterUnique ==
    [][/\ UniqueEmails'
       /\ \A c \in Clients :
            (pending[c] # {} /\ register_commit(c)) =>
               IF \E u \in users : u.email = new_user(c).email
               THEN /\ users' = users
                    /\ session' = session
                    /\ last'.outcome = "flash:email-taken;redirect:register"
               ELSE \E u \in users' :
                      /\ users' \ users = {u}
                      /\ u.email = new_user(c).email
                      /\ session'[c] = u.id
                      /\ last'.outcome = "redirect:get_all_posts"
      ]_vars

\* Two registrations for one email were pending together; both have
\* committed, one row holds the email and the later commit was turned down.
C9_Witness ==
    /\ raced
    /\ \A c \in Clients : pending[c] = {}
    /\ last.route = "register"
    /\ last.outcome = "flash:email-taken;redirect:register"
    /\ Cardinality(users) = 1

\* C10: no request to the contact handler ends without a response.
C10_ContactAlwaysResponds ==
    last.route = "contact" => last.outcome # "return:None"

=============================================================================
